---------------------------- MODULE Spec2Model ----------------------------
(***************************************************************************)
(* A model of topology_cacher.py: the TopologyData object (its two         *)
(* fetched XML documents and the four lookup structures built from the     *)
(* resource document), the two query methods, and the run of main.         *)
(*                                                                         *)
(* Strings are sequences of one-character strings, so that str.strip() is  *)
(* computed and not assumed.  The result of Element.find() is a record     *)
(* [kind, text]: kind "None" when no element matches, "NoText" when the    *)
(* element exists and its .text is None (<Name/>), "Text" otherwise.       *)
(* A Python dict is a function whose DOMAIN is its key set.                *)
(***************************************************************************)
EXTENDS Integers, Sequences, FiniteSets, TLC

VARIABLES
    projects,          \* self.projects  (a document, or NoDoc for None)
    resources,         \* self.resources (a document, or NoDoc for None)
    resinfo_table,     \* self.resinfo_table
    grouped_resinfo,   \* self.grouped_resinfo
    resinfo_by_name,   \* self.resinfo_by_name
    resinfo_by_fqdn,   \* self.resinfo_by_fqdn
    pc,                \* position of the caller (the constructor, main)
    call,              \* the last operation that was called
    exc,               \* how that operation ended: "none" or the exception
    ret,               \* what it returned (NoRet when it returned nothing)
    files              \* main: the output files written so far, in order

vars == <<projects, resources, resinfo_table, grouped_resinfo,
          resinfo_by_name, resinfo_by_fqdn, pc, call, exc, ret, files>>

index_vars == <<resinfo_table, grouped_resinfo, resinfo_by_name, resinfo_by_fqdn>>

-----------------------------------------------------------------------------
(* Bounds of the model *)

MaxGroups == 2

MaxProjects == 2

-----------------------------------------------------------------------------
(* Strings *)

Whitespace == {" ", "\t", "\n", "\r"}

RECURSIVE lstrip(_)
lstrip(s) ==
    IF s # <<>> /\ Head(s) \in Whitespace THEN lstrip(Tail(s)) ELSE s

RECURSIVE rstrip(_)
rstrip(s) ==
    IF s # <<>> /\ s[Len(s)] \in Whitespace
    THEN rstrip(SubSeq(s, 1, Len(s) - 1))
    ELSE s

\* str.strip()
strip(s) == rstrip(lstrip(s))

-----------------------------------------------------------------------------
(* Elements *)

NoElem    == [kind |-> "None",   text |-> <<>>]
EmptyElem == [kind |-> "NoText", text |-> <<>>]
TextElem(s) == [kind |-> "Text", text |-> s]

\* getattr(element, "text", "") is "" only when element is None; an element
\* without text has text None, and None.strip() raises AttributeError.
safe_element_text_raises(element) == element.kind = "NoText"

safe_element_text(element) ==
    IF element.kind = "None" THEN <<>> ELSE strip(element.text)

\* findall_nonempty: list(filter(None, map(safe_element_text, elements)))
RECURSIVE any_raises(_)
any_raises(elements) ==
    /\ elements # <<>>
    /\ \/ safe_element_text_raises(Head(elements))
       \/ any_raises(Tail(elements))

RECURSIVE findall_nonempty(_)
findall_nonempty(elements) ==
    IF elements = <<>> THEN <<>>
    ELSE LET t == safe_element_text(Head(elements))
         IN  (IF t # <<>> THEN <<t>> ELSE <<>>) \o findall_nonempty(Tail(elements))

-----------------------------------------------------------------------------
(* Dicts *)

EmptyDict == [k \in {} |-> <<>>]

\* dict.setdefault in place of item assignment: the first value stays
DictPutFirst(d, k, v) ==
    [x \in (DOMAIN d) \cup {k} |-> IF x \in DOMAIN d THEN d[x] ELSE v]

DictPut(d, k, v) == [x \in (DOMAIN d) \cup {k} |-> IF x = k THEN v ELSE d[x]]


-----------------------------------------------------------------------------
(* Documents *)

\* A parsed document is its root element: the sequence of the root's children.
\* NoDoc is None, the value of self.projects and self.resources before a fetch.
NoDoc == [loaded |-> FALSE, children |-> <<>>]
Doc(children) == [loaded |-> TRUE, children |-> children]

\* Element.findall("./Tag"): the children with that tag, in document order.
findall(doc, tag) == SelectSeq(doc.children, LAMBDA c : c.tag = tag)

\* bool(x) for x None or an Element: an Element is true iff it has children.
Truthy(doc) == doc.loaded /\ doc.children # <<>>

-----------------------------------------------------------------------------
(* ResourceInfo *)

SERVICE_ID_CE == <<"1">>
SERVICE_ID_SCHEDD == <<"1", "0", "9">>

ResourceInfo(group_name, name, fqdn, service_ids, tags) ==
    [group_name |-> group_name, name |-> name, fqdn |-> fqdn,
     service_ids |-> service_ids, tags |-> tags]

Contains(seq, x) == \E i \in 1..Len(seq) : seq[i] = x

\* a test for either service in place of the CE test
is_ce_or_schedd(resinfo) ==
    \/ Contains(resinfo.service_ids, SERVICE_ID_CE)
    \/ Contains(resinfo.service_ids, SERVICE_ID_SCHEDD)

is_ce(resinfo) == Contains(resinfo.service_ids, SERVICE_ID_CE)

is_schedd(resinfo) == Contains(resinfo.service_ids, SERVICE_ID_SCHEDD)

-----------------------------------------------------------------------------
(* TopologyData.update_resources: the loops that build the indices *)

\* The four structures as reset at the top of update_resources.
ResetIndices ==
    [table |-> <<>>, grouped |-> EmptyDict, by_name |-> EmptyDict,
     by_fqdn |-> EmptyDict, exc |-> "none"]

Raise(st, e) == [st EXCEPT !.exc = e]

\* The body of the inner loop, for one Resource element of a named group.
IndexResource(st, group_name, eResource) ==
    IF st.exc # "none" THEN st
    ELSE IF \/ safe_element_text_raises(eResource.Name)
            \/ safe_element_text_raises(eResource.FQDN)
            \/ any_raises(eResource.ServiceIDs)
    THEN Raise(st, "AttributeError")
    ELSE
      LET resource_name == safe_element_text(eResource.Name)
          fqdn          == safe_element_text(eResource.FQDN)
          service_ids   == findall_nonempty(eResource.ServiceIDs)
      IN  IF resource_name = <<>> \/ fqdn = <<>> \/ service_ids = <<>>
          THEN st
          ELSE IF any_raises(eResource.Tags)
          THEN Raise(st, "AttributeError")
          ELSE
            LET tags    == findall_nonempty(eResource.Tags)
                resinfo == ResourceInfo(group_name, resource_name, fqdn,
                                        service_ids, tags)
            IN  [st EXCEPT
                   !.table   = Append(@, resinfo),
                   !.grouped = DictPut(@, group_name, Append(@[group_name], resinfo)),
                   !.by_name = DictPut(@, resource_name, resinfo),
                   !.by_fqdn = DictPut(@, fqdn, resinfo)]

RECURSIVE IndexResources(_, _, _)
IndexResources(st, group_name, eResources) ==
    IF eResources = <<>> THEN st
    ELSE IndexResources(IndexResource(st, group_name, Head(eResources)),
                        group_name, Tail(eResources))

\* The first statement of the outer loop's body for a named group.
RegisterGroup(st, group_name) ==
    [st EXCEPT !.grouped = DictPut(@, group_name, <<>>)]

\* The body of the outer loop, for one ResourceGroup element.
IndexGroup(st, eResourceGroup) ==
    IF st.exc # "none" THEN st
    ELSE IF safe_element_text_raises(eResourceGroup.GroupName)
    THEN Raise(st, "AttributeError")
    ELSE
      LET group_name == safe_element_text(eResourceGroup.GroupName)
      IN  IF group_name = <<>> THEN st
          ELSE IndexResources(RegisterGroup(st, group_name), group_name,
                              eResourceGroup.Resources)

RECURSIVE IndexGroups(_, _)
IndexGroups(st, eGroups) ==
    IF eGroups = <<>> THEN st
    ELSE IndexGroups(IndexGroup(st, Head(eGroups)), Tail(eGroups))

\* a reset that forgets the two dicts keyed by name and FQDN
StartIndicesKeepKeys(cur) ==
    [cur EXCEPT !.table = <<>>, !.grouped = EmptyDict, !.exc = "none"]

\* The structures update_resources starts to fill, given the current ones.
StartIndices(cur) == ResetIndices

\* update_resources after a successful fetch of doc.
BuildIndices(cur, doc) ==
    IndexGroups(StartIndices(cur), findall(doc, "ResourceGroup"))

CurrentIndices ==
    [table |-> resinfo_table, grouped |-> grouped_resinfo,
     by_name |-> resinfo_by_name, by_fqdn |-> resinfo_by_fqdn, exc |-> "none"]

StoreIndices(st) ==
    /\ resinfo_table' = st.table
    /\ grouped_resinfo' = st.grouped
    /\ resinfo_by_name' = st.by_name
    /\ resinfo_by_fqdn' = st.by_fqdn

-----------------------------------------------------------------------------
(* TopologyData.get_resource_info_lookups *)

\* namedtuple._asdict(): a dict of the five fields.
asdict(x) ==
    [group_name |-> x.group_name, name |-> x.name, fqdn |-> x.fqdn,
     service_ids |-> x.service_ids, tags |-> x.tags]

RECURSIVE MapAsdict(_)
MapAsdict(resinfo_list) ==
    IF resinfo_list = <<>> THEN <<>>
    ELSE <<asdict(Head(resinfo_list))>> \o MapAsdict(Tail(resinfo_list))

\* a comprehension with a filter on the CE service
GroupListDictsOfCes(resinfo_list) == MapAsdict(SelectSeq(resinfo_list, is_ce))

\* The list comprehension [x._asdict() for x in resinfo_list].
GroupListDicts(resinfo_list) == MapAsdict(resinfo_list)

get_resource_info_lookups(st) ==
    [resource_lists_by_group |->
        [g \in DOMAIN st.grouped |-> GroupListDicts(st.grouped[g])],
     resources_by_name |->
        [k \in DOMAIN st.by_name |-> asdict(st.by_name[k])],
     resources_by_fqdn |->
        [k \in DOMAIN st.by_fqdn |-> asdict(st.by_fqdn[k])]]

-----------------------------------------------------------------------------
(* TopologyData.get_project_resource_allocations *)

\* The loops accumulate into [exc, out]: out is the list built so far, exc
\* the exception that ended the loop early ("none" while it runs).
Acc(out) == [exc |-> "none", out |-> out]

\* The body of the SubmitResource loop.
SubmitStep(st, acc, eSubmitResource) ==
    IF acc.exc # "none" THEN acc
    ELSE IF safe_element_text_raises(eSubmitResource)
    THEN Raise(acc, "AttributeError")
    ELSE
      LET key == safe_element_text(eSubmitResource)
      IN  IF key \notin DOMAIN st.by_name THEN acc
          ELSE LET resinfo == st.by_name[key]
               IN  [acc EXCEPT !.out = Append(@,
                       [fqdn |-> resinfo.fqdn,
                        group_name |-> resinfo.group_name,
                        name |-> resinfo.name])]

RECURSIVE SubmitLoop(_, _, _)
SubmitLoop(st, acc, eSubmitResource_list) ==
    IF eSubmitResource_list = <<>> THEN acc
    ELSE SubmitLoop(st, SubmitStep(st, acc, Head(eSubmitResource_list)),
                    Tail(eSubmitResource_list))

\* The list comprehension that computes ces.
Ces(resinfo_list) ==
    LET F[i \in 0..Len(resinfo_list)] ==
          IF i = 0 THEN <<>>
          ELSE IF is_ce(resinfo_list[i])
               THEN Append(F[i - 1], [fqdn |-> resinfo_list[i].fqdn,
                                      name |-> resinfo_list[i].name])
               ELSE F[i - 1]
    IN  F[Len(resinfo_list)]

\* self.grouped_resinfo.get(group_name), with "not resinfo_list".
GroupMissingOrEmpty(st, group_name) ==
    \/ group_name \notin DOMAIN st.grouped
    \/ st.grouped[group_name] = <<>>

\* The body of the ExecuteResourceGroup loop.
ExecuteStep(st, acc, eExecuteResourceGroup) ==
    IF acc.exc # "none" THEN acc
    ELSE IF \/ safe_element_text_raises(eExecuteResourceGroup.GroupName)
            \/ safe_element_text_raises(eExecuteResourceGroup.LocalAllocationID)
    THEN Raise(acc, "AttributeError")
    ELSE
      LET group_name == safe_element_text(eExecuteResourceGroup.GroupName)
          local_allocation_id ==
              safe_element_text(eExecuteResourceGroup.LocalAllocationID)
      IN  IF group_name = <<>> \/ local_allocation_id = <<>> THEN acc
          ELSE IF GroupMissingOrEmpty(st, group_name) THEN acc
          ELSE [acc EXCEPT !.out = Append(@,
                   [ces |-> Ces(st.grouped[group_name]),
                    group_name |-> group_name,
                    local_allocation_id |-> local_allocation_id])]

RECURSIVE ExecuteLoop(_, _, _)
ExecuteLoop(st, acc, eExecuteResourceGroup_list) ==
    IF eExecuteResourceGroup_list = <<>> THEN acc
    ELSE ExecuteLoop(st, ExecuteStep(st, acc, Head(eExecuteResourceGroup_list)),
                     Tail(eExecuteResourceGroup_list))

\* a check that leaves out the list of SubmitResource elements
BadAllocationTwoChecks(type_, eExecuteResourceGroup_list, eSubmitResource_list) ==
    \/ type_ = <<>>
    \/ eExecuteResourceGroup_list = <<>>

\* The check that sets bad_ra.
BadAllocation(type_, eExecuteResourceGroup_list, eSubmitResource_list) ==
    \/ type_ = <<>>
    \/ eExecuteResourceGroup_list = <<>>
    \/ eSubmitResource_list = <<>>

\* The body of the ResourceAllocation loop; acc.out is the project's list.
AllocationStep(st, acc, eResourceAllocation) ==
    IF acc.exc # "none" THEN acc
    ELSE IF safe_element_text_raises(eResourceAllocation.Type)
    THEN Raise(acc, "AttributeError")
    ELSE
      LET type_ == safe_element_text(eResourceAllocation.Type)
          eExecuteResourceGroup_list == eResourceAllocation.ExecuteResourceGroups
          eSubmitResource_list == eResourceAllocation.SubmitResources
      IN  IF BadAllocation(type_, eExecuteResourceGroup_list, eSubmitResource_list)
          THEN acc
          ELSE
            LET sub == SubmitLoop(st, Acc(<<>>), eSubmitResource_list)
                ex  == IF sub.exc # "none" THEN sub
                       ELSE ExecuteLoop(st, Acc(<<>>), eExecuteResourceGroup_list)
            IN  IF sub.exc # "none" THEN Raise(acc, sub.exc)
                ELSE IF ex.exc # "none" THEN Raise(acc, ex.exc)
                ELSE [acc EXCEPT !.out = Append(@,
                         [type |-> type_,
                          submit_resources |-> sub.out,
                          execute_resource_groups |-> ex.out])]

RECURSIVE AllocationLoop(_, _, _)
AllocationLoop(st, acc, eResourceAllocations) ==
    IF eResourceAllocations = <<>> THEN acc
    ELSE AllocationLoop(st, AllocationStep(st, acc, Head(eResourceAllocations)),
                        Tail(eResourceAllocations))

\* The body of the Project loop; acc.out is the dict ret.
ProjectStep(st, acc, eProject) ==
    IF acc.exc # "none" THEN acc
    ELSE IF safe_element_text_raises(eProject.Name)
    THEN Raise(acc, "AttributeError")
    ELSE
      LET project_name == safe_element_text(eProject.Name)
      IN  IF project_name = <<>> THEN acc
          ELSE
            LET allocations ==
                  AllocationLoop(st, Acc(<<>>), eProject.ResourceAllocations)
            IN  \* ret[project_name] is set before the loop and filled in place
                [exc |-> allocations.exc,
                 out |-> DictPut(acc.out, project_name, allocations.out)]

RECURSIVE ProjectLoop(_, _, _)
ProjectLoop(st, acc, eProjects) ==
    IF eProjects = <<>> THEN acc
    ELSE ProjectLoop(st, ProjectStep(st, acc, Head(eProjects)), Tail(eProjects))

\* "if not self.projects or not self.resources: return {}"
EarlyReturn(projDoc, resDoc) == ~Truthy(projDoc) \/ ~Truthy(resDoc)

\* The method: [exc, out], out the returned dict when exc = "none".
get_project_resource_allocations(projDoc, resDoc, st) ==
    IF EarlyReturn(projDoc, resDoc) THEN Acc(EmptyDict)
    ELSE ProjectLoop(st, Acc(EmptyDict), findall(projDoc, "Project"))

-----------------------------------------------------------------------------
(* TopologyData._get_data *)

\* What urlopen(...).read() and ET.fromstring do for one query: the transport
\* fails with the EnvironmentError the handler catches ("oserror"), or the body
\* is empty ("empty"), is not well-formed XML ("garbage"), or parses to the
\* element doc ("xml").
Response(kind, doc) == [kind |-> kind, doc |-> doc]

DataError(endpoint, what) ==
    [exc |-> "DataError", endpoint |-> endpoint, what |-> what, element |-> NoDoc]

\* a handler that returns None on a transport failure instead of raising
get_data_swallow(endpoint, response) ==
    IF response.kind = "oserror"
    THEN [exc |-> "none", endpoint |-> endpoint, what |-> "", element |-> NoDoc]
    ELSE IF response.kind = "empty" THEN DataError(endpoint, "returned no data")
    ELSE IF response.kind = "garbage" THEN DataError(endpoint, "couldn't be parsed")
    ELSE [exc |-> "none", endpoint |-> endpoint, what |-> "", element |-> response.doc]

\* The outcome of _get_data(endpoint) for the response the server gave.
get_data(endpoint, response) ==
    IF response.kind = "oserror" THEN DataError(endpoint, "failed")
    ELSE IF response.kind = "empty" THEN DataError(endpoint, "returned no data")
    ELSE IF response.kind = "garbage" THEN DataError(endpoint, "couldn't be parsed")
    ELSE [exc |-> "none", endpoint |-> endpoint, what |-> "", element |-> response.doc]

PROJECTS_ENDPOINT == "/miscproject/xml"
RESOURCES_ENDPOINT == "/rgsummary/xml"

-----------------------------------------------------------------------------
(* The documents the Topology service may serve *)

T1(a) == TextElem(<<a>>)
T2(a, b) == TextElem(<<a, b>>)
T3(a, b, c) == TextElem(<<a, b, c>>)

Resource(name, fqdn, ids, tags) ==
    [Name |-> name, FQDN |-> fqdn, ServiceIDs |-> ids, Tags |-> tags]

\* a CE, a Schedd, and a resource that is both and repeats the name "a"
resCE     == Resource(T1("a"), T2("f", "a"), <<T1("1")>>, <<>>)
resSchedd == Resource(T1("b"), T2("f", "b"), <<T3("1", "0", "9")>>, <<T1("t")>>)
resBoth   == Resource(T3(" ", "a", " "), T2("f", "c"),
                      <<T1(" "), T3("1", "0", "9"), T3(" ", "1", "\n")>>,
                      <<T1(" "), T2("t", " "), T1("u")>>)
\* repeats the FQDN "fa"; its service id "10" is neither CE nor Schedd
resDupFqdn == Resource(T1("c"), T3("f", "a", " "), <<T2("1", "0")>>, <<>>)
\* well-formed, used inside groups without a name
resHidden == Resource(T1("z"), T2("f", "z"), <<T1("1")>>, <<>>)
\* malformed: no Name element (its empty Tag is never read), a blank FQDN,
\* only blank service ids, no Service element
resNoName    == Resource(NoElem, T2("f", "d"), <<T1("1")>>, <<EmptyElem>>)
resBlankFqdn == Resource(T1("d"), T1(" "), <<T1("1")>>, <<>>)
resBlankIds  == Resource(T1("e"), T2("f", "e"), <<T1(" "), T1("\t")>>, <<>>)
resNoIds     == Resource(T1("e"), T2("f", "e"), <<>>, <<T1("t")>>)
\* elements present without text
resEmptyName == Resource(EmptyElem, T2("f", "a"), <<T1("1")>>, <<>>)
resEmptyId   == Resource(T1("b"), NoElem, <<T1("1"), EmptyElem>>, <<>>)
resEmptyTag  == Resource(T1("b"), T2("f", "b"), <<T1("1")>>, <<EmptyElem>>)

ResourceGroup(name, eResources) ==
    [tag |-> "ResourceGroup", GroupName |-> name, Resources |-> eResources]

\* the children of the root of a resource document
GroupPool ==
    { ResourceGroup(T1("g"), <<resCE, resNoName, resSchedd>>),
      ResourceGroup(T3(" ", "g", "\n"), <<resBoth>>),
      ResourceGroup(T1("h"), <<resBlankFqdn, resNoIds, resBlankIds>>),
      ResourceGroup(T1("k"), <<resSchedd, resDupFqdn, resSchedd>>),
      ResourceGroup(NoElem, <<resHidden>>),
      ResourceGroup(T1(" "), <<resHidden, resCE>>),
      ResourceGroup(EmptyElem, <<resCE>>),
      ResourceGroup(T1("k"), <<resCE, resEmptyTag, resSchedd>>),
      ResourceGroup(T1("h"), <<resBoth, resEmptyId, resEmptyName>>),
      [tag |-> "Other", GroupName |-> NoElem, Resources |-> <<>>] }

RECURSIVE SeqsUpTo(_, _)
SeqsUpTo(S, n) ==
    IF n = 0 THEN {<<>>}
    ELSE LET shorter == SeqsUpTo(S, n - 1)
         IN  shorter \cup {Append(q, x) : q \in shorter, x \in S}

ResDocs == {Doc(c) : c \in SeqsUpTo(GroupPool, MaxGroups)}

ExecuteResourceGroup(name, id) == [GroupName |-> name, LocalAllocationID |-> id]

ResourceAllocation(type, eGroups, eSubmits) ==
    [Type |-> type, ExecuteResourceGroups |-> eGroups, SubmitResources |-> eSubmits]

allocFull ==
    ResourceAllocation(T1("t"),
        <<ExecuteResourceGroup(T1("g"), T1("1")),
          ExecuteResourceGroup(T1("k"), T2("2", " "))>>,
        <<T1("a"), T1("b")>>)
\* references that do not resolve: groups "q" (never served) and "h"
allocUnresolved ==
    ResourceAllocation(T3(" ", "t", " "),
        <<ExecuteResourceGroup(T1("q"), T1("1")),
          ExecuteResourceGroup(T1("h"), T1("1"))>>,
        <<T1("q"), T1(" "), T1("z")>>)
\* malformed references beside good ones
allocMixed ==
    ResourceAllocation(T1("u"),
        <<ExecuteResourceGroup(NoElem, T1("1")),
          ExecuteResourceGroup(T2("g", " "), T1("7")),
          ExecuteResourceGroup(T1("k"), NoElem),
          ExecuteResourceGroup(T1("g"), T1(" "))>>,
        <<T1("q"), T2(" ", "c"), T1("a")>>)
\* no Type, a blank Type, no ExecuteResourceGroup, no SubmitResource
allocNoType ==
    ResourceAllocation(NoElem, <<ExecuteResourceGroup(T1("g"), T1("1"))>>, <<T1("a")>>)
allocBlankType ==
    ResourceAllocation(T1(" "), <<ExecuteResourceGroup(T1("g"), T1("1"))>>, <<T1("a")>>)
allocNoGroups == ResourceAllocation(T1("t"), <<>>, <<T1("a")>>)
allocNoSubmit ==
    ResourceAllocation(T1("t"), <<ExecuteResourceGroup(T1("g"), T1("1"))>>, <<>>)
\* elements present without text
allocEmptyType ==
    ResourceAllocation(EmptyElem, <<>>, <<T1("a")>>)
allocEmptySubmit ==
    ResourceAllocation(T1("t"), <<ExecuteResourceGroup(T1("g"), T1("1"))>>,
                       <<T1("a"), EmptyElem>>)
allocEmptyId ==
    ResourceAllocation(T1("t"), <<ExecuteResourceGroup(T1("g"), EmptyElem)>>,
                       <<T1("a")>>)

Project(name, eAllocations) ==
    [tag |-> "Project", Name |-> name, ResourceAllocations |-> eAllocations]

\* the children of the root of a project document
ProjectPool ==
    { Project(T1("P"), <<allocFull, allocNoType, allocUnresolved>>),
      Project(T3(" ", "P", " "), <<allocMixed>>),
      Project(T1("Q"), <<>>),
      Project(T1("Q"), <<allocNoGroups, allocBlankType, allocNoSubmit>>),
      Project(T1("R"), <<allocNoSubmit, allocMixed, allocBlankType, allocNoGroups, allocFull>>),
      Project(NoElem, <<allocFull>>),
      Project(T1("\n"), <<allocFull>>),
      Project(EmptyElem, <<allocFull>>),
      Project(T1("R"), <<allocFull, allocEmptyType>>),
      Project(T1("S"), <<allocEmptySubmit>>),
      Project(T1("S"), <<allocUnresolved, allocEmptyId>>),
      [tag |-> "Other", Name |-> NoElem, ResourceAllocations |-> <<>>] }

ProjDocs == {Doc(c) : c \in SeqsUpTo(ProjectPool, MaxProjects)}

\* A few whole documents.  The constructor of Spec is served any resource
\* document of ResDocs with one of the few project documents, the constructor
\* of SpecJoin any project document of ProjDocs with one of the few resource
\* documents; later fetches are served the few documents.
FewProjDocs ==
    { Doc(<<>>),
      Doc(<<Project(T1("P"), <<allocFull, allocNoType, allocUnresolved>>),
            Project(T1("Q"), <<>>)>>),
      Doc(<<Project(T1("S"), <<allocEmptySubmit>>)>>) }

FewResDocs ==
    { Doc(<<>>),
      Doc(<<[tag |-> "Other", GroupName |-> NoElem, Resources |-> <<>>]>>),
      Doc(<<ResourceGroup(NoElem, <<resHidden>>)>>),
      Doc(<<ResourceGroup(T1("g"), <<resCE, resNoName, resSchedd>>),
            ResourceGroup(T1("k"), <<resSchedd, resDupFqdn>>)>>),
      Doc(<<ResourceGroup(T1("g"), <<resCE, resNoName, resSchedd>>),
            ResourceGroup(T3(" ", "g", "\n"), <<resBoth>>),
            ResourceGroup(NoElem, <<resHidden>>),
            ResourceGroup(T1("h"), <<resBlankFqdn, resNoIds>>)>>),
      Doc(<<ResourceGroup(T1("k"), <<resSchedd, resDupFqdn>>),
            ResourceGroup(T1("g"), <<resBoth, resCE, resSchedd, resCE>>),
            ResourceGroup(T1(" "), <<resHidden, resCE>>)>>),
      Doc(<<ResourceGroup(T1("k"), <<resCE, resEmptyTag, resSchedd>>)>>) }

Failures == {Response("oserror", NoDoc), Response("empty", NoDoc),
             Response("garbage", NoDoc)}

Responses(docs) == Failures \cup {Response("xml", d) : d \in docs}

-----------------------------------------------------------------------------
(* The state machine *)

NoRet == [kind |-> "none", value |-> <<>>]
Returned(kind, value) == [kind |-> kind, value |-> value]
\* the exception that left the call: its type is in exc, its message here
RaisedMsg(endpoint, what) ==
    [kind |-> "error", value |-> [endpoint |-> endpoint, what |-> what]]

Init ==
    /\ projects = NoDoc
    /\ resources = NoDoc
    /\ resinfo_table = <<>>
    /\ grouped_resinfo = EmptyDict
    /\ resinfo_by_name = EmptyDict
    /\ resinfo_by_fqdn = EmptyDict
    /\ pc = "start"
    /\ call = "none"
    /\ exc = "none"
    /\ ret = NoRet
    /\ files = <<>>

\* update_projects: [exc, projects, msg]
update_projects(response) ==
    LET r == get_data(PROJECTS_ENDPOINT, response)
    IN  IF r.exc # "none"
        THEN [exc |-> r.exc, projects |-> projects,
              msg |-> RaisedMsg(r.endpoint, r.what)]
        ELSE [exc |-> "none", projects |-> r.element, msg |-> NoRet]

\* update_resources: [exc, resources, st, msg]; st are the four structures
\* as the call leaves them, also when it raises half way through the loops.
update_resources(response) ==
    LET r == get_data(RESOURCES_ENDPOINT, response)
    IN  IF r.exc # "none"
        THEN [exc |-> r.exc, resources |-> resources, st |-> CurrentIndices,
              msg |-> RaisedMsg(r.endpoint, r.what)]
        ELSE LET st == BuildIndices(CurrentIndices, r.element)
             IN  [exc |-> st.exc, resources |-> r.element, st |-> st,
                  msg |-> IF st.exc = "none" THEN NoRet
                          ELSE RaisedMsg("", "NoneType has no attribute strip")]

\* TopologyData.__init__: update_projects(), then update_resources().  An
\* exception leaves the constructor, and no object exists.
ConstructWith(projResponses, resResponses) ==
    /\ pc = "start"
    /\ \E rp \in projResponses, rr \in resResponses :
         LET p == update_projects(rp)
             r == update_resources(rr)
         IN  IF p.exc # "none"
             THEN /\ exc' = p.exc
                  /\ ret' = p.msg
                  /\ pc' = "crashed"
                  /\ UNCHANGED <<projects, resources, index_vars>>
             ELSE /\ projects' = p.projects
                  /\ resources' = r.resources
                  /\ StoreIndices(r.st)
                  /\ exc' = r.exc
                  /\ ret' = r.msg
                  /\ pc' = IF r.exc = "none" THEN "constructed" ELSE "crashed"
    /\ call' = "__init__"
    /\ UNCHANGED files

UpdateProjectsWith(projResponses) ==
    /\ pc = "constructed"
    /\ \E rp \in projResponses :
         LET p == update_projects(rp)
         IN  /\ projects' = p.projects
             /\ exc' = p.exc
             /\ ret' = p.msg
    /\ call' = "update_projects"
    /\ UNCHANGED <<resources, index_vars, pc, files>>

UpdateResourcesWith(resResponses) ==
    /\ pc = "constructed"
    /\ \E rr \in resResponses :
         LET r == update_resources(rr)
         IN  /\ resources' = r.resources
             /\ StoreIndices(r.st)
             /\ exc' = r.exc
             /\ ret' = r.msg
    /\ call' = "update_resources"
    /\ UNCHANGED <<projects, pc, files>>

GetResourceInfoLookups ==
    /\ pc = "constructed"
    /\ call' = "get_resource_info_lookups"
    /\ exc' = "none"
    /\ ret' = Returned("lookups", get_resource_info_lookups(CurrentIndices))
    /\ UNCHANGED <<projects, resources, index_vars, pc, files>>

GetProjectResourceAllocations ==
    /\ pc = "constructed"
    /\ call' = "get_project_resource_allocations"
    /\ LET r == get_project_resource_allocations(projects, resources, CurrentIndices)
       IN  /\ exc' = r.exc
           /\ ret' = IF r.exc = "none" THEN Returned("allocations", r.out)
                     ELSE RaisedMsg("", "NoneType has no attribute strip")
    /\ UNCHANGED <<projects, resources, index_vars, pc, files>>

\* Later fetches of a living object are served one of a few documents.
UpdateProjects == UpdateProjectsWith(Responses(FewProjDocs))

UpdateResources == UpdateResourcesWith(Responses(FewResDocs))

\* The constructor is served a resource document of any shape.
Construct == ConstructWith(Responses(FewProjDocs), Responses(ResDocs))

Next ==
    \/ Construct
    \/ UpdateProjects
    \/ UpdateResources
    \/ GetResourceInfoLookups
    \/ GetProjectResourceAllocations

Spec == Init /\ [][Next]_vars

\* The constructor is served a project document of any shape.
ConstructJoin == ConstructWith(Responses(ProjDocs), Responses(FewResDocs))

NextJoin ==
    \/ ConstructJoin
    \/ GetResourceInfoLookups
    \/ GetProjectResourceAllocations

SpecJoin == Init /\ [][NextJoin]_vars

-----------------------------------------------------------------------------
(* main *)

\* open(path, "w") and the write: done, or OSError and main returns a message.
WriteFile(from, filename, to) ==
    /\ pc = from
    /\ \E ok \in BOOLEAN :
         IF ok THEN files' = Append(files, filename) /\ pc' = to
               ELSE files' = files /\ pc' = "failed"
    /\ UNCHANGED <<projects, resources, index_vars, call, exc, ret>>

WriteMiscproject == WriteFile("constructed", "miscproject.xml", "wrote_miscproject")

WriteRgsummary == WriteFile("wrote_miscproject", "rgsummary.xml", "wrote_rgsummary")

\* The two calls that compose the contents of the json files.
Compose ==
    /\ pc = "wrote_rgsummary"
    /\ LET r == get_project_resource_allocations(projects, resources, CurrentIndices)
       IN  IF r.exc # "none"
           THEN /\ call' = "get_project_resource_allocations"
                /\ exc' = r.exc
                /\ ret' = RaisedMsg("", "NoneType has no attribute strip")
                /\ pc' = "crashed"
           ELSE /\ call' = "get_resource_info_lookups"
                /\ exc' = "none"
                /\ ret' = Returned("composed",
                      [project_resource_allocations |-> r.out,
                       resource_info_lookups |->
                           get_resource_info_lookups(CurrentIndices)])
                /\ pc' = "composed"
    /\ UNCHANGED <<projects, resources, index_vars, files>>

WriteAllocations ==
    WriteFile("composed", "project_resource_allocations.json", "wrote_allocations")

WriteLookups == WriteFile("wrote_allocations", "resource_info_lookups.json", "done")

NextMain ==
    \/ Construct
    \/ WriteMiscproject
    \/ WriteRgsummary
    \/ Compose
    \/ WriteAllocations
    \/ WriteLookups

SpecMain == Init /\ [][NextMain]_vars

-----------------------------------------------------------------------------
(* What the documents say, stated without the loops of the code *)

\* A text that is non-empty after trimming, and the trimmed text.
NonBlank(e) ==
    e.kind = "Text" /\ \E i \in 1..Len(e.text) : e.text[i] \notin Whitespace

Trim(s) ==
    LET keep == {i \in 1..Len(s) : s[i] \notin Whitespace}
    IN  IF keep = {} THEN <<>>
        ELSE LET lo == CHOOSE i \in keep : \A j \in keep : i <= j
                 hi == CHOOSE i \in keep : \A j \in keep : j <= i
             IN  SubSeq(s, lo, hi)

TrimmedNonBlank(elements) ==
    LET kept == SelectSeq(elements, NonBlank)
    IN  [i \in 1..Len(kept) |-> Trim(kept[i].text)]

GroupElements(doc) == SelectSeq(doc.children, LAMBDA c : c.tag = "ResourceGroup")

WellFormed(eResource) ==
    /\ NonBlank(eResource.Name)
    /\ NonBlank(eResource.FQDN)
    /\ \E i \in 1..Len(eResource.ServiceIDs) : NonBlank(eResource.ServiceIDs[i])

\* The positions <<i, j>> (j-th resource of the i-th group element) of the
\* well-formed resources of the named groups.
AdmittedPos(doc) ==
    LET G == GroupElements(doc)
    IN  UNION { { <<i, j>> : j \in { k \in 1..Len(G[i].Resources) :
                                        WellFormed(G[i].Resources[k]) } } :
                i \in { k \in 1..Len(G) : NonBlank(G[k].GroupName) } }

Before(p, q) == p[1] < q[1] \/ (p[1] = q[1] /\ p[2] < q[2])

GroupNameAt(doc, i) == Trim(GroupElements(doc)[i].GroupName.text)

RecordAt(doc, p) ==
    LET r == GroupElements(doc)[p[1]].Resources[p[2]]
    IN  [group_name  |-> GroupNameAt(doc, p[1]),
         name        |-> Trim(r.Name.text),
         fqdn        |-> Trim(r.FQDN.text),
         service_ids |-> TrimmedNonBlank(r.ServiceIDs),
         tags        |-> TrimmedNonBlank(r.Tags)]

\* The records at the positions P, in document order.
RecordsAt(doc, P) ==
    [k \in 1..Cardinality(P) |->
        RecordAt(doc, CHOOSE p \in P : Cardinality({q \in P : Before(q, p)}) = k - 1)]

LastOf(P) == CHOOSE p \in P : \A q \in P : q = p \/ Before(q, p)

ExpectedTable(doc) == RecordsAt(doc, AdmittedPos(doc))

ExpectedByName(doc) ==
    LET A == AdmittedPos(doc)
    IN  [n \in {RecordAt(doc, p).name : p \in A} |->
            RecordAt(doc, LastOf({p \in A : RecordAt(doc, p).name = n}))]

ExpectedByFqdn(doc) ==
    LET A == AdmittedPos(doc)
    IN  [f \in {RecordAt(doc, p).fqdn : p \in A} |->
            RecordAt(doc, LastOf({p \in A : RecordAt(doc, p).fqdn = f}))]

NamedGroupIdx(doc) ==
    {i \in 1..Len(GroupElements(doc)) : NonBlank(GroupElements(doc)[i].GroupName)}

GroupNames(doc) == {GroupNameAt(doc, i) : i \in NamedGroupIdx(doc)}

\* The list of a group name holds the records of the last element so named.
ExpectedGrouped(doc) ==
    [n \in GroupNames(doc) |->
        LET I == {i \in NamedGroupIdx(doc) : GroupNameAt(doc, i) = n}
            last == CHOOSE i \in I : \A j \in I : j <= i
        IN  RecordsAt(doc, {p \in AdmittedPos(doc) : p[1] = last})]

\* update_resources (in the constructor or called later) has just returned.
Indexed ==
    /\ pc = "constructed"
    /\ call \in {"__init__", "update_resources"}
    /\ exc = "none"

ProjectElements(doc) == SelectSeq(doc.children, LAMBDA c : c.tag = "Project")

NamedProjectIdx(doc) ==
    {i \in 1..Len(ProjectElements(doc)) : NonBlank(ProjectElements(doc)[i].Name)}

ProjectNameAt(doc, i) == Trim(ProjectElements(doc)[i].Name.text)

ProjectNames(doc) == {ProjectNameAt(doc, i) : i \in NamedProjectIdx(doc)}

ValidAllocation(a) ==
    /\ NonBlank(a.Type)
    /\ a.ExecuteResourceGroups # <<>>
    /\ a.SubmitResources # <<>>

ValidAllocations(eProject) == SelectSeq(eProject.ResourceAllocations, ValidAllocation)

\* The Project element a key of the result stands for: the last one named n.
OwnerOf(doc, n) ==
    LET I == {i \in NamedProjectIdx(doc) : ProjectNameAt(doc, i) = n}
    IN  ProjectElements(doc)[CHOOSE i \in I : \A j \in I : j <= i]

\* A SubmitResource reference resolves when its trimmed text is a key of by_name.
Resolves(by_name, e) == NonBlank(e) /\ Trim(e.text) \in DOMAIN by_name

ExpectedSubmit(by_name, eSubmits) ==
    LET good == SelectSeq(eSubmits, LAMBDA e : Resolves(by_name, e))
    IN  [i \in 1..Len(good) |->
            LET x == by_name[Trim(good[i].text)]
            IN  [fqdn |-> x.fqdn, group_name |-> x.group_name, name |-> x.name]]

ExpectedCes(resinfo_list) ==
    LET ce == SelectSeq(resinfo_list,
                  LAMBDA x : \E i \in 1..Len(x.service_ids) : x.service_ids[i] = <<"1">>)
    IN  [i \in 1..Len(ce) |-> [fqdn |-> ce[i].fqdn, name |-> ce[i].name]]

GoodGroupRef(grouped, e) ==
    /\ NonBlank(e.GroupName)
    /\ NonBlank(e.LocalAllocationID)
    /\ Trim(e.GroupName.text) \in DOMAIN grouped
    /\ grouped[Trim(e.GroupName.text)] # <<>>

ExpectedGroups(grouped, eGroups) ==
    LET good == SelectSeq(eGroups, LAMBDA e : GoodGroupRef(grouped, e))
    IN  [i \in 1..Len(good) |->
            [ces |-> ExpectedCes(grouped[Trim(good[i].GroupName.text)]),
             group_name |-> Trim(good[i].GroupName.text),
             local_allocation_id |-> Trim(good[i].LocalAllocationID.text)]]

\* get_project_resource_allocations has just returned a mapping.
Joined == ret.kind = "allocations"

-----------------------------------------------------------------------------
(* Properties *)

\* C1: after update_resources, for every group element with a non-blank
\* GroupName, the records of its well-formed resources are in
\* grouped_resinfo[name], each at one position, in document order, and nothing
\* else is: the list of a name holds the records of all the group elements
\* that carry that name.
C1_EveryGroupElementListed ==
    Indexed =>
        /\ DOMAIN grouped_resinfo = GroupNames(resources)
        /\ \A n \in GroupNames(resources) :
              grouped_resinfo[n] =
                  RecordsAt(resources,
                      {p \in AdmittedPos(resources) : GroupNameAt(resources, p[1]) = n})

\* C2: no operation raises on record-level malformation (every fetched
\* document was well-formed XML, so an AttributeError can only come from a
\* missing, empty or blank sub-element).
C2_NeverRaisesOnMalformation == exc # "AttributeError"

\* C3: after update_resources, resinfo_by_name and resinfo_by_fqdn have one
\* entry per distinct name (FQDN) of the admitted resources, and the entry is
\* the record of the last admitted resource, in document order across all
\* groups, with that name (FQDN).
C3_LastAdmittedWins ==
    Indexed =>
        /\ resinfo_by_name = ExpectedByName(resources)
        /\ resinfo_by_fqdn = ExpectedByFqdn(resources)

\* A name and an FQDN each carried by two admitted resources, a discarded
\* resource and a well-formed resource in a group without a name.
C3_Witness ==
    /\ Indexed
    /\ LET A == AdmittedPos(resources)
           G == GroupElements(resources)
       IN  /\ \E p, q \in A : /\ p[1] # q[1]
                              /\ RecordAt(resources, p).name = RecordAt(resources, q).name
                              /\ RecordAt(resources, p) # RecordAt(resources, q)
           /\ \E i \in NamedGroupIdx(resources) : \E j \in 1..Len(G[i].Resources) :
                 ~WellFormed(G[i].Resources[j])
    /\ \E i \in 1..Len(GroupElements(resources)) :
          /\ i \notin NamedGroupIdx(resources)
          /\ \E j \in 1..Len(GroupElements(resources)[i].Resources) :
                WellFormed(GroupElements(resources)[i].Resources[j])

\* C4: in the result, a ResourceAllocation element with a blank or missing
\* Type, no ExecuteResourceGroup or no SubmitResource contributes nothing: the
\* sequence of a project is, in document order, one record per other
\* allocation element of the Project element the key stands for.
C4_BadAllocationsContributeNothing ==
    Joined =>
        /\ DOMAIN ret.value \subseteq ProjectNames(projects)
        /\ \A n \in DOMAIN ret.value :
              LET v == ValidAllocations(OwnerOf(projects, n))
              IN  /\ Len(ret.value[n]) = Len(v)
                  /\ \A k \in 1..Len(v) : ret.value[n][k].type = Trim(v[k].Type.text)

\* A project whose element has an allocation failing each of the three
\* checks, and two allocations that were emitted.
C4_Witness ==
    /\ Joined
    /\ \E n \in DOMAIN ret.value :
          LET a == OwnerOf(projects, n).ResourceAllocations
          IN  /\ \E i \in 1..Len(a) : ~NonBlank(a[i].Type)
              /\ \E i \in 1..Len(a) : a[i].ExecuteResourceGroups = <<>>
              /\ \E i \in 1..Len(a) : a[i].SubmitResources = <<>>
              /\ Len(ret.value[n]) >= 2

\* C5: every ResourceAllocation element of a named project that has a Type,
\* an ExecuteResourceGroup and a SubmitResource yields one record of the
\* output, for every resource document, and its submit_resources are the
\* projections of the references that resolve, in reference order.
C5_EveryValidAllocationEmitted ==
    Joined =>
        \A i \in NamedProjectIdx(projects) :
            LET n == ProjectNameAt(projects, i)
                v == ValidAllocations(ProjectElements(projects)[i])
            IN  /\ n \in DOMAIN ret.value
                /\ Len(ret.value[n]) = Len(v)
                /\ \A k \in 1..Len(v) :
                      ret.value[n][k].submit_resources =
                          ExpectedSubmit(resinfo_by_name, v[k].SubmitResources)

\* C6: in every emitted allocation, execute_resource_groups has one entry per
\* reference with a GroupName, a LocalAllocationID and a non-empty list in
\* grouped_resinfo, and its ces are the {fqdn, name} of the records of that
\* list whose service_ids contain "1", in the order of the list.
C6_CesAreTheComputeEntrypoints ==
    Joined =>
        \A n \in DOMAIN ret.value :
            LET v == ValidAllocations(OwnerOf(projects, n))
            IN  \A k \in 1..Len(ret.value[n]) :
                   /\ k <= Len(v)
                   /\ ret.value[n][k].execute_resource_groups =
                          ExpectedGroups(grouped_resinfo, v[k].ExecuteResourceGroups)

\* An entry with no CE, an entry whose group also lists a resource that is
\* only a Schedd, and an allocation that lost a reference.
C6_Witness ==
    /\ Joined
    /\ \E n \in DOMAIN ret.value : \E k \in 1..Len(ret.value[n]) :
          LET g == ret.value[n][k].execute_resource_groups
          IN  /\ \E i \in 1..Len(g) : g[i].ces = <<>>
              /\ \E i \in 1..Len(g) :
                    /\ g[i].ces # <<>>
                    /\ Len(g[i].ces) < Len(grouped_resinfo[g[i].group_name])
    /\ \E n \in DOMAIN ret.value : \E k \in 1..Len(ret.value[n]) :
          /\ k <= Len(ValidAllocations(OwnerOf(projects, n)))
          /\ Len(ret.value[n][k].execute_resource_groups) <
                Len(ValidAllocations(OwnerOf(projects, n))[k].ExecuteResourceGroups)

\* C7: the keys of the result are exactly the non-blank trimmed names of the
\* Project elements, whatever the two fetched documents hold.
C7_KeysAreTheProjectNames ==
    Joined => DOMAIN ret.value = ProjectNames(projects)

\* C8: a successful update_resources leaves the four structures a function of
\* the document it fetched and of nothing older, and a second successful call
\* that fetches the same document leaves them as they were.
C8_IndicesFollowNewestDocument ==
    [][ (call' = "update_resources" /\ exc' = "none") =>
          /\ resinfo_table' = ExpectedTable(resources')
          /\ grouped_resinfo' = ExpectedGrouped(resources')
          /\ resinfo_by_name' = ExpectedByName(resources')
          /\ resinfo_by_fqdn' = ExpectedByFqdn(resources')
          /\ (Indexed /\ resources' = resources) => UNCHANGED index_vars ]_vars

\* A refresh fetched a document with two groups that lacks an FQDN other
\* documents carry.
C8_Witness ==
    /\ call = "update_resources"
    /\ exc = "none"
    /\ resources.children # <<>>
    /\ resinfo_table # <<>>
    /\ DOMAIN grouped_resinfo = {<<"g">>, <<"k">>}
    /\ <<"f", "c">> \notin DOMAIN resinfo_by_fqdn

SameFields(d, x) ==
    /\ DOMAIN d = {"group_name", "name", "fqdn", "service_ids", "tags"}
    /\ d.group_name = x.group_name
    /\ d.name = x.name
    /\ d.fqdn = x.fqdn
    /\ d.service_ids = x.service_ids
    /\ d.tags = x.tags

LookupsMatch ==
    /\ ret.kind = "lookups"
    /\ DOMAIN ret.value =
          {"resource_lists_by_group", "resources_by_name", "resources_by_fqdn"}
    /\ DOMAIN ret.value.resource_lists_by_group = DOMAIN grouped_resinfo
    /\ \A g \in DOMAIN grouped_resinfo :
          /\ Len(ret.value.resource_lists_by_group[g]) = Len(grouped_resinfo[g])
          /\ \A i \in 1..Len(grouped_resinfo[g]) :
                SameFields(ret.value.resource_lists_by_group[g][i], grouped_resinfo[g][i])
    /\ DOMAIN ret.value.resources_by_name = DOMAIN resinfo_by_name
    /\ \A k \in DOMAIN resinfo_by_name :
          SameFields(ret.value.resources_by_name[k], resinfo_by_name[k])
    /\ DOMAIN ret.value.resources_by_fqdn = DOMAIN resinfo_by_fqdn
    /\ \A k \in DOMAIN resinfo_by_fqdn :
          SameFields(ret.value.resources_by_fqdn[k], resinfo_by_fqdn[k])

\* C9: get_resource_info_lookups returns the three indices entry for entry,
\* same keys, same lengths and order, five fields per record, nothing
\* filtered, and leaves the indices as they were.
C9_LookupsAreTheIndices ==
    [][ call' = "get_resource_info_lookups" =>
          (LookupsMatch' /\ UNCHANGED index_vars) ]_vars

\* Lookups of indices with a group of several records, not all of them CEs,
\* an empty group, and a record that is not the one by_name has for its name.
C9_Witness ==
    /\ call = "get_resource_info_lookups"
    /\ ret.kind = "lookups"
    /\ \E g \in DOMAIN grouped_resinfo :
          /\ Len(ret.value.resource_lists_by_group[g]) >= 2
          /\ \E i \in 1..Len(grouped_resinfo[g]) : ~is_schedd(grouped_resinfo[g][i])
          /\ \E i \in 1..Len(grouped_resinfo[g]) :
                ~Contains(grouped_resinfo[g][i].service_ids, <<"1">>)
    /\ \E i \in 1..Len(resinfo_table) :
          resinfo_by_name[resinfo_table[i].name] # resinfo_table[i]

\* C10: in a run of main, a fetch that fails raises DataError naming its
\* endpoint and ends the run with no file written; a file is written only
\* when both documents were fetched and parsed.
C10_NoFileWithoutBothDocuments ==
    /\ files # <<>> => (projects.loaded /\ resources.loaded /\ exc # "DataError")
    /\ exc = "DataError" =>
          /\ pc = "crashed"
          /\ files = <<>>
          /\ ret.kind = "error"
          /\ \/ ret.value.endpoint = PROJECTS_ENDPOINT /\ ~projects.loaded
             \/ /\ ret.value.endpoint = RESOURCES_ENDPOINT
                /\ projects.loaded
                /\ ~resources.loaded

\* The run ended on a failed fetch of the resource document.
C10_Witness ==
    /\ pc = "crashed"
    /\ exc = "DataError"
    /\ ret.value.endpoint = RESOURCES_ENDPOINT
    /\ ret.value.what = "couldn't be parsed"
    /\ projects.loaded
    /\ files = <<>>

=============================================================================
